---------------------------- MODULE Spec2Model ----------------------------
(***************************************************************************)
(* Feature engineering (services/feature_engineer.py), enrichment          *)
(* (services/data_enricher.py), prediction storage                         *)
(* (services/prediction_storage_service.py) and the two collectors         *)
(* (services/price_collector.py, services/prediction_collector.py) of the  *)
(* Bitcoin price service.                                                  *)
(*                                                                         *)
(* A float is a record [k, v]: k = "num" with v the value in units of      *)
(* 1/SCALE, k = "nan" (pandas NaN / null), or k = "inf" with v the sign.   *)
(* A price is a plain integer in the same units (the price column is       *)
(* never null).  A DataFrame is a sequence of row records; row t of the    *)
(* source (0-based) is element t+1.                                        *)
(***************************************************************************)
EXTENDS Integers, Sequences, FiniteSets, TLC

VARIABLES
    bitcoin_prices,   \* table bitcoin_prices, in timestamp order
    features,         \* table modeldb_bitcoin_features
    result,           \* value returned by the last DataEnricher call
    df,               \* input DataFrame of the last BitcoinFeatureEngineer call
    df2,              \* input of a second, independent call (two-run properties)
    out,              \* DataFrame returned for df
    out2,             \* DataFrame returned for df2
    call,             \* the last operation and its arguments
    scaler,           \* the MinMaxScaler of the BitcoinFeatureEngineer instance
    predictions,      \* table bitcoin_predictions, in insertion order
    now,              \* the clock, in minutes
    running,          \* the running flag of each collector
    tasks             \* the start_collection tasks of each collector

\* the state of the prediction storage and of the two collectors
services == <<predictions, now, running, tasks>>

vars == <<bitcoin_prices, features, result, df, df2, out, out2, call, scaler,
          services>>

(***************************************************************************)
(* Bounds of the model.                                                    *)
(***************************************************************************)
SCALE == 10000        \* fixed-point resolution of a float: 1/SCALE
Cent == 100           \* one cent (Numeric(15,2)) in units of 1/SCALE
MaxLagLen == 62       \* longest series given to create_lag_features
MaxWindowLen == 61    \* longest input of SpecRolling (one row more than the widest window)
MaxRollLen == 8       \* longest series given to create_rolling_features
MaxTechLen == 22      \* longest series given to create_technical_indicators
MaxSmallLen == 4      \* longest series enumerated price by price
MaxPairLen == 3       \* longest series of a pair of inputs
MaxHistory == 2       \* rows the collector stores in Spec
MinHistory == 120     \* shortest stored history of SpecHistory
MaxLongHistory == 121 \* longest stored history of SpecHistory
MaxShiftAt == 20      \* latest row at which a long history changes level
Tolerance == 5        \* floating-point tolerance of a comparison, in 1/SCALE
MaxBack == 2          \* how many minutes before the next one a new point may lie
MaxOrderLen == 3      \* longest input of SpecOrder
MaxZoneLen == 2       \* longest input of SpecZones

(***************************************************************************)
(* Integer helpers.                                                        *)
(***************************************************************************)
\* the element of a singleton set: binds a value that is computed once
The(S) == CHOOSE x \in S : TRUE

Abs(x) == IF x < 0 THEN -x ELSE x
Max2(a, b) == IF a >= b THEN a ELSE b
Min2(a, b) == IF a <= b THEN a ELSE b
Sign(x) == IF x < 0 THEN -1 ELSE 1

\* floor(a * 10^k / b) for a >= 0, b > 0, by long division (no overflow)
RECURSIVE LongDiv(_, _, _)
LongDiv(a, b, k) ==
    IF k = 0 THEN [q |-> a \div b, r |-> a % b]
    ELSE LET p == LongDiv(a, b, k - 1)
         IN  [q |-> 10 * p.q + ((10 * p.r) \div b), r |-> (10 * p.r) % b]

\* a / b as a fixed-point value (a, b in the same units), truncated
ScaledDiv(a, b) == Sign(a) * Sign(b) * LongDiv(Abs(a), Abs(b), 4).q

\* floor(sqrt(x)) for x >= 0, by bisection on [lo, hi]
RECURSIVE SqrtBisect(_, _, _)
SqrtBisect(x, lo, hi) ==
    IF hi - lo <= 1 THEN lo
    ELSE LET mid == (lo + hi) \div 2
         IN  IF mid * mid <= x THEN SqrtBisect(x, mid, hi)
                               ELSE SqrtBisect(x, lo, mid)
ISqrt(x) == SqrtBisect(x, 0, Min2(x + 1, 46340))

(***************************************************************************)
(* IEEE-754 doubles as the source uses them (numpy/pandas arithmetic).     *)
(***************************************************************************)
Num(x) == [k |-> "num", v |-> x]
NaN == [k |-> "nan", v |-> 0]
PInf == [k |-> "inf", v |-> 1]
NInf == [k |-> "inf", v |-> -1]
IsNum(a) == a.k = "num"
IsNaN(a) == a.k = "nan"
IsInf(a) == a.k = "inf"

FNeg(a) == IF IsNaN(a) THEN NaN ELSE [k |-> a.k, v |-> -a.v]

FAdd(a, b) ==
    IF IsNaN(a) \/ IsNaN(b) THEN NaN
    ELSE IF IsInf(a) /\ IsInf(b) THEN (IF a.v = b.v THEN a ELSE NaN)
    ELSE IF IsInf(a) THEN a
    ELSE IF IsInf(b) THEN b
    ELSE Num(a.v + b.v)

FSub(a, b) == FAdd(a, FNeg(b))

\* a * n for an integer constant n
FScale(a, n) ==
    IF IsNaN(a) THEN NaN
    ELSE IF IsInf(a) THEN (IF n = 0 THEN NaN ELSE [k |-> "inf", v |-> a.v * Sign(n)])
    ELSE Num(a.v * n)

\* a / b: x/0 is +-inf, 0/0 is NaN (numpy does not raise)
FDiv(a, b) ==
    IF IsNaN(a) \/ IsNaN(b) THEN NaN
    ELSE IF IsInf(a) THEN (IF IsInf(b) THEN NaN ELSE [k |-> "inf", v |-> a.v * Sign(b.v)])
    ELSE IF IsInf(b) THEN Num(0)
    ELSE IF b.v = 0 THEN (IF a.v = 0 THEN NaN ELSE IF a.v > 0 THEN PInf ELSE NInf)
    ELSE Num(ScaledDiv(a.v, b.v))

FAbs(a) == IF IsNaN(a) THEN NaN ELSE [k |-> a.k, v |-> Abs(a.v)]

\* a > b, a < b (False when either is NaN)
FGt(a, b) ==
    IF IsNaN(a) \/ IsNaN(b) THEN FALSE
    ELSE IF IsInf(a) THEN (a.v = 1 /\ ~(IsInf(b) /\ b.v = 1))
    ELSE IF IsInf(b) THEN b.v = -1
    ELSE a.v > b.v
FLt(a, b) == FGt(b, a)

\* (mutant) no clipping
FClip_None(a, lo, hi) == a

\* Series.clip(lo, hi) on one element: NaN stays NaN
FClip(a, lo, hi) ==
    IF IsNaN(a) THEN NaN
    ELSE IF FLt(a, Num(lo)) THEN Num(lo)
    ELSE IF FGt(a, Num(hi)) THEN Num(hi)
    ELSE a

(***************************************************************************)
(* pandas Series operations, a Series being a sequence of floats.          *)
(***************************************************************************)
\* df[price_col]
PriceCol(d) == [t \in 1..Len(d) |-> Num(d[t].price)]

\* (mutant) shift that fills the first n rows with 0 instead of NaN
Shift_ZeroFill(s, n) == [t \in 1..Len(s) |-> IF t > n THEN s[t - n] ELSE Num(0)]

\* Series.shift(n)
Shift(s, n) == [t \in 1..Len(s) |-> IF t > n THEN s[t - n] ELSE NaN]

\* (mutant) the difference taken the other way round
Diff_Reversed(s, n) == [t \in 1..Len(s) |-> IF t > n THEN FSub(s[t - n], s[t]) ELSE NaN]

\* Series.diff(n)
Diff(s, n) == [t \in 1..Len(s) |-> IF t > n THEN FSub(s[t], s[t - n]) ELSE NaN]

\* Series.pct_change(n): s / s.shift(n) - 1
PctChange(s, n) ==
    [t \in 1..Len(s) |-> IF t > n THEN FSub(FDiv(s[t], s[t - n]), Num(SCALE)) ELSE NaN]

\* The non-NaN observations of rows lo..hi: count, sum, minimum, maximum
\* (computed by halving the range, which keeps the evaluation shallow).
StatsOf(x) ==
    IF IsNum(x) THEN [n |-> 1, sum |-> x.v, min |-> x.v, max |-> x.v]
    ELSE [n |-> 0, sum |-> 0, min |-> 0, max |-> 0]
StatsJoin(a, b) ==
    IF a.n = 0 THEN b
    ELSE IF b.n = 0 THEN a
    ELSE [n |-> a.n + b.n, sum |-> a.sum + b.sum,
          min |-> Min2(a.min, b.min), max |-> Max2(a.max, b.max)]
RECURSIVE WindowStats(_, _, _)
WindowStats(s, lo, hi) ==
    IF lo > hi THEN [n |-> 0, sum |-> 0, min |-> 0, max |-> 0]
    ELSE IF lo = hi THEN StatsOf(s[lo])
    ELSE LET mid == (lo + hi) \div 2
         IN  StatsJoin(WindowStats(s, lo, mid), WindowStats(s, mid + 1, hi))

\* Sum and sum of squares of (x - base) \div c over the observations of lo..hi.
RECURSIVE WindowSquares(_, _, _, _, _)
WindowSquares(s, lo, hi, base, c) ==
    IF lo > hi THEN [sum |-> 0, sq |-> 0]
    ELSE IF lo = hi
         THEN IF IsNum(s[lo])
              THEN LET d == (s[lo].v - base) \div c IN [sum |-> d, sq |-> d * d]
              ELSE [sum |-> 0, sq |-> 0]
    ELSE LET mid == (lo + hi) \div 2
             a == WindowSquares(s, lo, mid, base, c)
             b == WindowSquares(s, mid + 1, hi, base, c)
         IN  [sum |-> a.sum + b.sum, sq |-> a.sq + b.sq]

\* (mutant) a window one row too long
WinLo_OffByOne(t, window) == Max2(1, t - window)

\* the first row of the trailing window of row t
WinLo(t, window) == Max2(1, t - window + 1)

\* (mutant) rolling mean with the default min_periods = window
RollingMean_FullWindow(s, window) ==
    [t \in 1..Len(s) |->
        LET w == WindowStats(s, WinLo(t, window), t)
        IN  IF w.n < window THEN NaN ELSE Num(Sign(w.sum) * (Abs(w.sum) \div w.n))]

\* Series.rolling(window, min_periods=1).mean()
RollingMean(s, window) ==
    [t \in 1..Len(s) |->
        LET w == WindowStats(s, WinLo(t, window), t)
        IN  IF w.n < 1 THEN NaN ELSE Num(Sign(w.sum) * (Abs(w.sum) \div w.n))]

\* Series.rolling(window, min_periods=1).min() / .max()
RollingMin(s, window) ==
    [t \in 1..Len(s) |->
        LET w == WindowStats(s, WinLo(t, window), t)
        IN  IF w.n < 1 THEN NaN ELSE Num(w.min)]
RollingMax(s, window) ==
    [t \in 1..Len(s) |->
        LET w == WindowStats(s, WinLo(t, window), t)
        IN  IF w.n < 1 THEN NaN ELSE Num(w.max)]

\* Sample standard deviation (ddof = 1) of the observations of rows lo..hi:
\* NaN unless there are more than ddof observations.  The deviations are
\* taken from the window minimum and, like a float mantissa, coarsened by c
\* when the spread is large, so that the sums stay within 32 bits.
StdOfWindow(s, lo, hi) ==
    LET w == WindowStats(s, lo, hi)
        c == 1 + ((w.max - w.min) \div 512)
        q == WindowSquares(s, lo, hi, w.min, c)
        V == w.n * q.sq - q.sum * q.sum
        D == w.n * (w.n - 1)
    IN  IF w.n < 1 \/ w.n <= 1 THEN NaN
        ELSE Num((c * ISqrt(LongDiv(V, D, 2).q)) \div 10)

\* Series.rolling(window, min_periods=1).std()
RollingStd(s, window) ==
    [t \in 1..Len(s) |-> StdOfWindow(s, WinLo(t, window), t)]

\* floor(a * b / c) for a >= 0 and 0 <= b < c, by doubling (no overflow)
RECURSIVE MulDiv(_, _, _)
MulDiv(a, b, c) ==
    IF a = 0 THEN [q |-> 0, r |-> 0]
    ELSE The({ The({ [q |-> 2 * h.q + (r2 \div c), r |-> r2 % c] :
                     r2 \in {2 * h.r + (a % 2) * b} }) :
               h \in {MulDiv(a \div 2, b, c)} })

\* Series.ewm(span=span).mean(), adjust=True, as pandas computes it: the
\* running weighted average of rows 1..t with weights (1-alpha)^(t-i),
\* alpha = 2/(span+1).  At each row the old weight is multiplied by
\* 1 - alpha and, unless the average already equals the new value, the
\* average becomes (old_wt * avg + cur) / (old_wt + 1); then old_wt += 1.
\* num carries the average in units of 1/EwmNum of a price unit, den the old
\* weight in units of 1/EwmDen (0 before the first row).  The series given
\* to ewm never holds NaN.
EwmNum == 1000
EwmDen == 10000000
\* (mutant) decay with alpha = 1/span
Decay_InverseSpan(x, span) == x - (x \div span)

\* multiplication by 1 - alpha = (span-1)/(span+1)
Decay(x, span) == x + ((0 - 2 * x) \div (span + 1))

\* one row of the running average
EwmStep(p, x, span) ==
    IF p.den = 0 THEN [num |-> x.v * EwmNum, den |-> EwmDen]
    ELSE The({ [num |-> IF p.num = cur THEN p.num
                        ELSE cur + Sign(p.num - cur)
                                   * MulDiv(Abs(p.num - cur), old, old + EwmDen).q,
                den |-> old + EwmDen] :
               old \in {Decay(p.den, span)}, cur \in {x.v * EwmNum} })
\* the states after rows lo..hi, p being the state before row lo
RECURSIVE EwmStates(_, _, _, _, _)
EwmStates(s, span, p, lo, hi) ==
    IF lo > hi THEN << >>
    ELSE IF lo = hi THEN <<EwmStep(p, s[lo], span)>>
    ELSE LET mid == (lo + hi) \div 2
             left == EwmStates(s, span, p, lo, mid)
         IN  left \o EwmStates(s, span, left[Len(left)], mid + 1, hi)
EwmMean(s, span) ==
    LET st == EwmStates(s, span, [num |-> 0, den |-> 0], 1, Len(s))
    IN  [t \in 1..Len(s) |-> Num(Sign(st[t].num) * (Abs(st[t].num) \div EwmNum))]

(***************************************************************************)
(* Calendar fields of a timestamp.  A timestamp is the number of minutes   *)
(* since 1970-01-01 00:00 UTC (a Thursday); a naive timestamp is read as   *)
(* UTC (tz_localize('UTC')).                                               *)
(***************************************************************************)
IsLeap(y) == (y % 4 = 0 /\ y % 100 # 0) \/ y % 400 = 0
DaysInYear(y) == IF IsLeap(y) THEN 366 ELSE 365
\* day of the year (0-based) of day number dn, counting years from y
RECURSIVE DayOfYear(_, _)
DayOfYear(dn, y) == IF dn < DaysInYear(y) THEN dn ELSE DayOfYear(dn - DaysInYear(y), y + 1)

DtMinute(ts) == ts % 60
DtHour(ts) == (ts \div 60) % 24
DtDayOfWeek(ts) == ((ts \div 1440) + 3) % 7              \* Monday = 0
\* isocalendar().week: the week of the year of this week's Thursday
DtIsoWeek(ts) ==
    LET dn == ts \div 1440
        thursday == dn - DtDayOfWeek(ts) + 3
    IN  (DayOfYear(thursday, 1970) \div 7) + 1

(***************************************************************************)
(* BitcoinFeatureEngineer                                                  *)
(***************************************************************************)
\* df.copy() with the new columns assigned: a table of concrete rows
Table(d, cols) == SubSeq([t \in 1..Len(d) |-> cols[t] @@ d[t]], 1, Len(d))

create_temporal_features(d) ==
    Table(d, [t \in 1..Len(d) |->
            [minute_of_hour |-> DtMinute(d[t].timestamp),
             hour_of_day |-> DtHour(d[t].timestamp),
             day_of_week |-> DtDayOfWeek(d[t].timestamp),
             week_of_year |-> DtIsoWeek(d[t].timestamp)]])

create_lag_features(d) ==
    LET prices == PriceCol(d)
        lag1 == Shift(prices, 1)
        lag5 == Shift(prices, 5)
        lag15 == Shift(prices, 15)
        lag30 == Shift(prices, 30)
        lag60 == Shift(prices, 60)
    IN  Table(d, [t \in 1..Len(d) |->
            [price_lag_1min |-> lag1[t], price_lag_5min |-> lag5[t],
             price_lag_15min |-> lag15[t], price_lag_30min |-> lag30[t],
             price_lag_60min |-> lag60[t]]])

create_rolling_features(d) ==
    LET prices == PriceCol(d)
        m5 == RollingMean(prices, 5)
        m15 == RollingMean(prices, 15)
        m30 == RollingMean(prices, 30)
        m60 == RollingMean(prices, 60)
        s5 == RollingStd(prices, 5)
        s15 == RollingStd(prices, 15)
        s30 == RollingStd(prices, 30)
        s60 == RollingStd(prices, 60)
        mn30 == RollingMin(prices, 30)
        mx30 == RollingMax(prices, 30)
    IN  Table(d, [t \in 1..Len(d) |->
            [rolling_mean_5min |-> m5[t], rolling_mean_15min |-> m15[t],
             rolling_mean_30min |-> m30[t], rolling_mean_60min |-> m60[t],
             rolling_std_5min |-> s5[t], rolling_std_15min |-> s15[t],
             rolling_std_30min |-> s30[t], rolling_std_60min |-> s60[t],
             rolling_min_30min |-> mn30[t], rolling_max_30min |-> mx30[t]]])

calculate_rsi(prices, period) ==
    LET delta == Diff(prices, 1)
        up == [t \in 1..Len(prices) |-> IF FGt(delta[t], Num(0)) THEN delta[t] ELSE Num(0)]
        down == [t \in 1..Len(prices) |->
                    FNeg(IF FLt(delta[t], Num(0)) THEN delta[t] ELSE Num(0))]
        gain == RollingMean(up, period)
        loss == RollingMean(down, period)
    IN  [t \in 1..Len(prices) |->
            LET rs == FDiv(gain[t], loss[t])
            IN  FSub(Num(100 * SCALE), FDiv(Num(100 * SCALE), FAdd(Num(SCALE), rs)))]

calculate_macd(prices, fast, slow, signal) ==
    LET ema_fast == EwmMean(prices, fast)
        ema_slow == EwmMean(prices, slow)
    IN  The({ The({ [macd_line |-> macd_line,
                     macd_signal |-> macd_signal,
                     macd_histogram |-> [t \in 1..Len(prices) |->
                                            FSub(macd_line[t], macd_signal[t])]] :
                    macd_signal \in {EwmMean(macd_line, signal)} }) :
              macd_line \in {SubSeq([t \in 1..Len(prices) |->
                                        FSub(ema_fast[t], ema_slow[t])],
                                    1, Len(prices))} })

calculate_bollinger_bands(prices, period, std_dev) ==
    The({ The({ [bb_upper |-> upper_band, bb_middle |-> rolling_mean,
                 bb_lower |-> lower_band,
                 bb_width |-> [t \in 1..Len(prices) |->
                                  FSub(upper_band[t], lower_band[t])],
                 bb_position |-> [t \in 1..Len(prices) |->
                                     FClip(FDiv(FSub(prices[t], lower_band[t]),
                                                FSub(upper_band[t], lower_band[t])),
                                           0, SCALE)]] :
                upper_band \in {SubSeq([t \in 1..Len(prices) |->
                                   FAdd(rolling_mean[t], FScale(rolling_std[t], std_dev))],
                                   1, Len(prices))},
                lower_band \in {SubSeq([t \in 1..Len(prices) |->
                                   FSub(rolling_mean[t], FScale(rolling_std[t], std_dev))],
                                   1, Len(prices))} }) :
          rolling_mean \in {SubSeq(RollingMean(prices, period), 1, Len(prices))},
          rolling_std \in {SubSeq(RollingStd(prices, period), 1, Len(prices))} })

\* (mutant) row maximum that is NaN as soon as one entry is NaN
RowMax3_KeepNaN(a, b, c) ==
    IF IsNaN(a) \/ IsNaN(b) \/ IsNaN(c) THEN NaN
    ELSE IF FGt(b, a) THEN (IF FGt(c, b) THEN c ELSE b)
    ELSE IF FGt(c, a) THEN c ELSE a

\* DataFrame.max(axis=1) of three columns: NaN entries are skipped
RowMax3(a, b, c) ==
    LET pick(x, y) == IF IsNaN(x) THEN y ELSE IF IsNaN(y) THEN x
                      ELSE IF FGt(y, x) THEN y ELSE x
    IN  pick(pick(a, b), c)

calculate_atr(high, low, close, period) ==
    LET prev == Shift(close, 1)
        true_range == [t \in 1..Len(close) |->
                          RowMax3(FSub(high[t], low[t]),
                                  FAbs(FSub(high[t], prev[t])),
                                  FAbs(FSub(low[t], prev[t])))]
    IN  RollingMean(true_range, period)

calculate_stochastic(high, low, close, k_period, d_period) ==
    LET lowest_low == RollingMin(low, k_period)
        highest_high == RollingMax(high, k_period)
        k_percent == [t \in 1..Len(close) |->
                         FScale(FDiv(FSub(close[t], lowest_low[t]),
                                     FSub(highest_high[t], lowest_low[t])), 100)]
        d_percent == RollingMean(k_percent, d_period)
    IN  [stoch_k |-> k_percent, stoch_d |-> d_percent]

create_technical_indicators(d) ==
    LET prices == PriceCol(d)
        rsi == calculate_rsi(prices, 14)
        macd_data == calculate_macd(prices, 12, 26, 9)
        bb_data == calculate_bollinger_bands(prices, 20, 2)
        atr == calculate_atr(prices, prices, prices, 14)
        stoch_data == calculate_stochastic(prices, prices, prices, 14, 3)
    IN  Table(d, [t \in 1..Len(d) |->
            [rsi_14 |-> rsi[t],
             macd_line |-> macd_data.macd_line[t],
             macd_signal |-> macd_data.macd_signal[t],
             macd_histogram |-> macd_data.macd_histogram[t],
             bb_upper |-> bb_data.bb_upper[t], bb_middle |-> bb_data.bb_middle[t],
             bb_lower |-> bb_data.bb_lower[t], bb_width |-> bb_data.bb_width[t],
             bb_position |-> bb_data.bb_position[t],
             atr_14 |-> atr[t],
             stoch_k |-> stoch_data.stoch_k[t], stoch_d |-> stoch_data.stoch_d[t]]])

create_volatility_features(d) ==
    LET prices == PriceCol(d)
        c1 == Diff(prices, 1)
        c5 == Diff(prices, 5)
        c15 == Diff(prices, 15)
        p1 == PctChange(prices, 1)
        p5 == PctChange(prices, 5)
        p15 == PctChange(prices, 15)
        vol == RollingStd(prices, 30)
    IN  Table(d, [t \in 1..Len(d) |->
            [price_change_1min |-> c1[t], price_change_5min |-> c5[t],
             price_change_15min |-> c15[t],
             price_change_pct_1min |-> FScale(p1[t], 100),
             price_change_pct_5min |-> FScale(p5[t], 100),
             price_change_pct_15min |-> FScale(p15[t], 100),
             volatility_30min |-> vol[t]]])

\* (mutant) momentum over one period less
create_momentum_features_OnePeriodShort(d) ==
    LET prices == PriceCol(d)
        s5 == Shift(prices, 4)
        s15 == Shift(prices, 14)
        s30 == Shift(prices, 29)
    IN  Table(d, [t \in 1..Len(d) |->
            [momentum_5min |-> FSub(prices[t], s5[t]),
             momentum_15min |-> FSub(prices[t], s15[t]),
             momentum_30min |-> FSub(prices[t], s30[t])]])

create_momentum_features(d) ==
    LET prices == PriceCol(d)
        s5 == Shift(prices, 5)
        s15 == Shift(prices, 15)
        s30 == Shift(prices, 30)
    IN  Table(d, [t \in 1..Len(d) |->
            [momentum_5min |-> FSub(prices[t], s5[t]),
             momentum_15min |-> FSub(prices[t], s15[t]),
             momentum_30min |-> FSub(prices[t], s30[t])]])

\* self.scaler = MinMaxScaler(): not fitted yet
Unfitted == [fitted |-> FALSE, min |-> 0, max |-> 0]

\* MinMaxScaler.fit: the minimum and maximum of the data
MinMaxFit(prices) ==
    LET w == WindowStats(prices, 1, Len(prices))
    IN  [fitted |-> TRUE, min |-> w.min, max |-> w.max]

\* MinMaxScaler.transform: (x - min) / (max - min), a zero range being
\* replaced by 1 (sklearn _handle_zeros_in_scale)
MinMaxTransform(sc, prices) ==
    LET range == IF sc.max = sc.min THEN SCALE ELSE sc.max - sc.min
    IN  [t \in 1..Len(prices) |-> Num(ScaledDiv(prices[t].v - sc.min, range))]

\* (mutant) a scaler that is fitted only once
fit_transform_KeepFit(sc, prices) ==
    IF sc.fitted THEN [scaler |-> sc, values |-> MinMaxTransform(sc, prices)]
    ELSE [scaler |-> MinMaxFit(prices),
          values |-> MinMaxTransform(MinMaxFit(prices), prices)]

\* self.scaler.fit_transform(price_values): fits the scaler sc anew, whatever
\* it was fitted on before, and transforms with the new fit
fit_transform(sc, prices) ==
    The({[scaler |-> fit, values |-> MinMaxTransform(fit, prices)] :
         fit \in {MinMaxFit(prices)}})

\* fit_transform on a new scaler
MinMaxScale(prices) == fit_transform(Unfitted, prices).values

\* (mutant) normalize_features without the volume_normalized placeholder
NormalizeOn_NoVolume(sc, d) ==
    The({[scaler |-> ft.scaler,
          frame |-> Table(d, [t \in 1..Len(d) |->
                        [price_normalized |-> ft.values[t]]])] :
         ft \in {fit_transform(sc, PriceCol(d))}})

\* normalize_features on an instance whose scaler is sc: the scaler after the
\* call and the DataFrame returned
NormalizeOn(sc, d) ==
    The({[scaler |-> ft.scaler,
          frame |-> Table(d, [t \in 1..Len(d) |->
                        [price_normalized |-> ft.values[t],
                         volume_normalized |-> Num(0)]])] :
         ft \in {fit_transform(sc, PriceCol(d))}})

normalize_features(d) == NormalizeOn(Unfitted, d).frame

\* (mutant) no sorting
SortByTimestamp_Unsorted(d) == d

\* df.sort_values('timestamp').reset_index(drop=True), rows of equal timestamp
\* kept in input order: merge sort
RECURSIVE MergeByTimestamp(_, _)
MergeByTimestamp(a, b) ==
    IF a = << >> THEN b
    ELSE IF b = << >> THEN a
    ELSE IF a[Len(a)].timestamp <= b[1].timestamp THEN a \o b
    ELSE IF a[1].timestamp <= b[1].timestamp
         THEN <<a[1]>> \o MergeByTimestamp(Tail(a), b)
         ELSE <<b[1]>> \o MergeByTimestamp(a, Tail(b))
RECURSIVE SortByTimestamp(_)
SortByTimestamp(d) ==
    IF Len(d) <= 1 THEN d
    ELSE LET mid == Len(d) \div 2
         IN  MergeByTimestamp(SortByTimestamp(SubSeq(d, 1, mid)),
                              SortByTimestamp(SubSeq(d, mid + 1, Len(d))))

\* sort_values sorts with quicksort, which is not stable: rows of equal
\* timestamp may come out in any order.  SortOutcomes(d) is every order the
\* sort may return.
SwapAt(s, i) == [s EXCEPT ![i] = s[i + 1], ![i + 1] = s[i]]
TiePositions(s) == {i \in 1..(Len(s) - 1) : s[i].timestamp = s[i + 1].timestamp}
RECURSIVE TieClosure(_)
TieClosure(S) ==
    LET more == S \cup UNION {{SwapAt(s, i) : i \in TiePositions(s)} : s \in S}
    IN  IF more = S THEN S ELSE TieClosure(more)
SortOutcomes(d) == TieClosure({SortByTimestamp(d)})

\* The stages run in sequence, each on the table the previous one returned;
\* sc is the instance's scaler before the call.
EngineerSortedOn(sc, sorted) ==
    The({NormalizeOn(sc, momentum) :
         momentum \in {create_momentum_features(volatility) :
         volatility \in {create_volatility_features(technical) :
         technical \in {create_technical_indicators(rolled) :
         rolled \in {create_rolling_features(lagged) :
         lagged \in {create_lag_features(temporal) :
         temporal \in {create_temporal_features(sorted)}}}}}}})

\* the DataFrame returned by a new instance
EngineerSorted(sorted) == EngineerSortedOn(Unfitted, sorted).frame

\* the result when rows of equal timestamp keep their input order
engineer_all_features(d) ==
    The({EngineerSorted(sorted) : sorted \in {SortByTimestamp(d)}})

\* every result engineer_all_features may return
EngineerOutcomes(d) == {EngineerSorted(sorted) : sorted \in SortOutcomes(d)}

\* every result of engineer_all_features on an instance whose scaler is sc,
\* with the scaler it leaves
EngineerOutcomesOn(sc, d) == {EngineerSortedOn(sc, sorted) : sorted \in SortOutcomes(d)}

get_feature_columns ==
    <<"minute_of_hour", "hour_of_day", "day_of_week", "week_of_year",
      "price_lag_1min", "price_lag_5min", "price_lag_15min", "price_lag_30min",
      "price_lag_60min",
      "rolling_mean_5min", "rolling_mean_15min", "rolling_mean_30min",
      "rolling_mean_60min",
      "rolling_std_5min", "rolling_std_15min", "rolling_std_30min",
      "rolling_std_60min",
      "rolling_min_30min", "rolling_max_30min",
      "rsi_14", "macd_line", "macd_signal", "macd_histogram",
      "bb_upper", "bb_middle", "bb_lower", "bb_width", "bb_position",
      "atr_14", "stoch_k", "stoch_d",
      "price_change_1min", "price_change_5min", "price_change_15min",
      "price_change_pct_1min", "price_change_pct_5min", "price_change_pct_15min",
      "volatility_30min",
      "momentum_5min", "momentum_15min", "momentum_30min",
      "price_normalized", "volume_normalized">>

(***************************************************************************)
(* DataEnricher                                                            *)
(***************************************************************************)
None == [k |-> "none", v |-> 0]
\* float(x) if pd.notna(x) else None
FloatOrNone(x) == IF IsNaN(x) THEN None ELSE x

\* Decimal(str(price)) keeps the value of a price; the calendar fields are
\* integers and never NaN.
prepare_enriched_record(row) ==
    [price |-> row.price,
     timestamp |-> row.timestamp,
     source |-> row.source,
     minute_of_hour |-> row.minute_of_hour,
     hour_of_day |-> row.hour_of_day,
     day_of_week |-> row.day_of_week,
     week_of_year |-> row.week_of_year,
     price_lag_1min |-> FloatOrNone(row.price_lag_1min),
     price_lag_5min |-> FloatOrNone(row.price_lag_5min),
     price_lag_15min |-> FloatOrNone(row.price_lag_15min),
     price_lag_30min |-> FloatOrNone(row.price_lag_30min),
     price_lag_60min |-> FloatOrNone(row.price_lag_60min),
     rolling_mean_5min |-> FloatOrNone(row.rolling_mean_5min),
     rolling_mean_15min |-> FloatOrNone(row.rolling_mean_15min),
     rolling_mean_30min |-> FloatOrNone(row.rolling_mean_30min),
     rolling_mean_60min |-> FloatOrNone(row.rolling_mean_60min),
     rolling_std_5min |-> FloatOrNone(row.rolling_std_5min),
     rolling_std_15min |-> FloatOrNone(row.rolling_std_15min),
     rolling_std_30min |-> FloatOrNone(row.rolling_std_30min),
     rolling_std_60min |-> FloatOrNone(row.rolling_std_60min),
     rolling_min_30min |-> FloatOrNone(row.rolling_min_30min),
     rolling_max_30min |-> FloatOrNone(row.rolling_max_30min),
     rsi_14 |-> FloatOrNone(row.rsi_14),
     macd_line |-> FloatOrNone(row.macd_line),
     macd_signal |-> FloatOrNone(row.macd_signal),
     macd_histogram |-> FloatOrNone(row.macd_histogram),
     bb_upper |-> FloatOrNone(row.bb_upper),
     bb_middle |-> FloatOrNone(row.bb_middle),
     bb_lower |-> FloatOrNone(row.bb_lower),
     bb_width |-> FloatOrNone(row.bb_width),
     bb_position |-> FloatOrNone(row.bb_position),
     atr_14 |-> FloatOrNone(row.atr_14),
     stoch_k |-> FloatOrNone(row.stoch_k),
     stoch_d |-> FloatOrNone(row.stoch_d),
     price_change_1min |-> FloatOrNone(row.price_change_1min),
     price_change_5min |-> FloatOrNone(row.price_change_5min),
     price_change_15min |-> FloatOrNone(row.price_change_15min),
     price_change_pct_1min |-> FloatOrNone(row.price_change_pct_1min),
     price_change_pct_5min |-> FloatOrNone(row.price_change_pct_5min),
     price_change_pct_15min |-> FloatOrNone(row.price_change_pct_15min),
     volatility_30min |-> FloatOrNone(row.volatility_30min),
     momentum_5min |-> FloatOrNone(row.momentum_5min),
     momentum_15min |-> FloatOrNone(row.momentum_15min),
     momentum_30min |-> FloatOrNone(row.momentum_30min),
     price_normalized |-> FloatOrNone(row.price_normalized),
     volume_normalized |-> IF IsNaN(row.volume_normalized) THEN Num(0)
                           ELSE row.volume_normalized]

\* query(BitcoinPrice).order_by(timestamp)[.limit(limit)]: limit 0 stands for
\* None (a falsy limit is not applied).  The id and created_at columns are
\* read but never used afterwards.
load_historical_data(prices, limit) ==
    IF limit # 0 THEN SubSeq(prices, 1, Min2(limit, Len(prices))) ELSE prices

\* The table after save_enriched_data and its return value.  fail names the
\* statement that raises: 0 none, -1 the DELETE, k >= 1 the insert of batch k.
\* The DELETE and every batch are committed on their own; rollback() undoes
\* only the statement that raised.
BatchCount(total, batch_size) == (total + batch_size - 1) \div batch_size

\* (mutant) one transaction for the DELETE and all batches: a failure
\* restores the table
save_enriched_data_Atomic(table, enriched_df, batch_size, fail) ==
    LET total_records == Len(enriched_df)
        batches == BatchCount(total_records, batch_size)
        records == [t \in 1..total_records |-> prepare_enriched_record(enriched_df[t])]
    IN  IF fail = -1 \/ (fail >= 1 /\ fail <= batches)
        THEN [ok |-> FALSE, table |-> table]
        ELSE [ok |-> TRUE, table |-> SubSeq(records, 1, total_records)]

save_enriched_data(table, enriched_df, batch_size, fail) ==
    LET total_records == Len(enriched_df)
        batches == BatchCount(total_records, batch_size)
        records == [t \in 1..total_records |-> prepare_enriched_record(enriched_df[t])]
    IN  IF fail = -1 THEN [ok |-> FALSE, table |-> table]
        ELSE IF fail >= 1 /\ fail <= batches
             THEN [ok |-> FALSE,
                   table |-> SubSeq(records, 1, (fail - 1) * batch_size)]
        ELSE [ok |-> TRUE, table |-> SubSeq(records, 1, total_records)]

\* (mutant) enrich_historical_data without the check for an empty DataFrame
EnrichHistoricalOn_NoEmptyCheck(sc, prices, table, limit, batch_size, fail) ==
    LET historical_df == load_historical_data(prices, limit)
    IN  IF historical_df = << >>
        THEN The({[ok |-> saved.ok, table |-> saved.table, scaler |-> sc] :
                  saved \in {save_enriched_data(table, << >>, batch_size, fail)}})
        ELSE The({The({[ok |-> saved.ok, table |-> saved.table,
                        scaler |-> enriched.scaler] :
                       saved \in {save_enriched_data(table, enriched.frame,
                                                     batch_size, fail)}}) :
                  enriched \in {EngineerSortedOn(sc, SortByTimestamp(historical_df))}})

\* enrich_historical_data on a DataEnricher whose engineer has the scaler sc:
\* the return value, the feature table and the scaler after the call
EnrichHistoricalOn(sc, prices, table, limit, batch_size, fail) ==
    LET historical_df == load_historical_data(prices, limit)
    IN  IF historical_df = << >> THEN [ok |-> FALSE, table |-> table, scaler |-> sc]
        ELSE The({The({[ok |-> saved.ok, table |-> saved.table,
                        scaler |-> enriched.scaler] :
                       saved \in {save_enriched_data(table, enriched.frame,
                                                     batch_size, fail)}}) :
                  enriched \in {EngineerSortedOn(sc, SortByTimestamp(historical_df))}})

enrich_historical_data(prices, table, limit, batch_size, fail) ==
    The({[ok |-> r.ok, table |-> r.table] :
         r \in {EnrichHistoricalOn(Unfitted, prices, table, limit, batch_size, fail)}})

\* query(BitcoinPrice).order_by(timestamp.desc()).limit(100), reversed
ContextLimit == 100
RecentData(prices) ==
    SubSeq(prices, Max2(1, Len(prices) - ContextLimit + 1), Len(prices))

NoRecord == [kind |-> "None"]
enrich_single_record(prices, price, timestamp, source) ==
    LET recent_data == RecentData(prices)
        data == Append(recent_data,
                       [price |-> price, timestamp |-> timestamp, source |-> source])
    IN  IF recent_data = << >> THEN NoRecord
        ELSE The({[kind |-> "record",
                   rec |-> prepare_enriched_record(enriched_df[Len(enriched_df)])] :
                  enriched_df \in {engineer_all_features(data)}})

\* every result enrich_single_record may return on a DataEnricher whose
\* engineer has the scaler sc, with the scaler it leaves
EnrichSingleOutcomesOn(sc, prices, price, timestamp, source) ==
    LET recent_data == RecentData(prices)
        data == Append(recent_data,
                       [price |-> price, timestamp |-> timestamp, source |-> source])
    IN  IF recent_data = << >> THEN {[result |-> NoRecord, scaler |-> sc]}
        ELSE {[result |-> [kind |-> "record",
                           rec |-> prepare_enriched_record(
                                       enriched.frame[Len(enriched.frame)])],
               scaler |-> enriched.scaler] :
              enriched \in EngineerOutcomesOn(sc, data)}

(***************************************************************************)
(* Input DataFrames: one row per minute from minute 0.                     *)
(***************************************************************************)
Frame(ps) == [t \in 1..Len(ps) |->
                 [timestamp |-> t - 1, price |-> ps[t], source |-> "binance"]]

BasePrice == 100 * Cent
\* n prices from base in steps of step
Ramp(n, base, step) == [t \in 1..n |-> base + step * (t - 1)]
\* a ramp whose step changes from st1 to st2 after row k
Kink(n, base, st1, st2, k) ==
    [t \in 1..n |-> IF t <= k THEN base + st1 * (t - 1)
                    ELSE base + st1 * (k - 1) + st2 * (t - k)]
\* row k replaced by v
Spike(ps, k, v) == [ps EXCEPT ![k] = v]
\* k rows at price old followed by n - k rows at price new
Shift2(n, old, new, k) == [t \in 1..n |-> IF t <= k THEN old ELSE new]

Steps == {-3 * Cent, -Cent, 0, Cent, 3 * Cent}
SpikePrices == {10 * Cent, 190 * Cent}
SmallPrices == {99 * Cent, 100 * Cent, 102 * Cent}
PairPrices == {99 * Cent, 100 * Cent}

RampInputs(maxLen, steps) ==
    {Ramp(n, BasePrice, st) : n \in 1..maxLen, st \in steps}
KinkInputs(maxLen) ==
    {Kink(maxLen, BasePrice, st1, st2, k) : st1 \in Steps, st2 \in Steps, k \in 1..maxLen}
SpikeInputs(maxLen, steps) ==
    {Spike(Ramp(maxLen, BasePrice, st), k, v) :
        st \in steps, k \in 1..maxLen, v \in SpikePrices}
SmallInputs(maxLen) == UNION {[1..n -> SmallPrices] : n \in 1..maxLen}
\* the worked examples: prices 100, 101, 99, 102, 103 and 1, 2, 3, 4, 5
ScenarioInputs ==
    {<<100 * Cent, 101 * Cent, 99 * Cent, 102 * Cent, 103 * Cent>>,
     <<Cent, 2 * Cent, 3 * Cent, 4 * Cent, 5 * Cent>>}
\* inputs longer than the widest window: ramps, and a flat series with a spike
LongInputs(maxLen) ==
    {Ramp(n, BasePrice, st) : n \in (maxLen - 1)..maxLen, st \in {-Cent, Cent}}
    \cup SpikeInputs(maxLen, {0})

Idle == [name |-> "none"]
NoFrame == << >>
NoResult == [kind |-> "none"]

\* the part of the state a specification does not use
NoTables == bitcoin_prices = << >> /\ features = << >> /\ result = NoResult
NoCalls == df = NoFrame /\ df2 = NoFrame /\ out = NoFrame /\ out2 = NoFrame
NewInstance == scaler = Unfitted

\* the singleton collectors of the service
Collectors == {"price_collector", "prediction_collector"}
\* no prediction stored, no collector started
NoServices ==
    /\ predictions = << >> /\ now = 0
    /\ running = [c \in Collectors |-> FALSE]
    /\ tasks = [c \in Collectors |-> << >>]

(***************************************************************************)
(* SpecLag: create_lag_features applied to bounded inputs.                 *)
(***************************************************************************)
InitLag ==
    /\ df \in {Frame(ps) : ps \in RampInputs(MaxLagLen, {-Cent, 0, Cent})
                                  \cup SpikeInputs(MaxLagLen, {-Cent, 0, Cent})}
    /\ df2 = NoFrame /\ out = NoFrame /\ out2 = NoFrame
    /\ NoTables /\ call = Idle /\ NewInstance /\ NoServices

CreateLagFeatures ==
    /\ call = Idle
    /\ out' = create_lag_features(df)
    /\ call' = [name |-> "create_lag_features"]
    /\ UNCHANGED <<bitcoin_prices, features, result, df, df2, out2, scaler, services>>

NextLag == CreateLagFeatures
SpecLag == InitLag /\ [][NextLag]_vars

(***************************************************************************)
(* SpecRolling: create_rolling_features and create_volatility_features.    *)
(***************************************************************************)
InitRolling ==
    /\ df \in {Frame(ps) : ps \in RampInputs(MaxRollLen, Steps)
                                  \cup SpikeInputs(MaxRollLen, {0, Cent})
                                  \cup SmallInputs(MaxSmallLen)
                                  \cup ScenarioInputs
                                  \cup LongInputs(MaxWindowLen)}
    /\ df2 = NoFrame /\ out = NoFrame /\ out2 = NoFrame
    /\ NoTables /\ call = Idle /\ NewInstance /\ NoServices

CreateRollingFeatures ==
    /\ call = Idle
    /\ out' = create_rolling_features(df)
    /\ call' = [name |-> "create_rolling_features"]
    /\ UNCHANGED <<bitcoin_prices, features, result, df, df2, out2, scaler, services>>

CreateVolatilityFeatures ==
    /\ call = Idle
    /\ out' = create_volatility_features(df)
    /\ call' = [name |-> "create_volatility_features"]
    /\ UNCHANGED <<bitcoin_prices, features, result, df, df2, out2, scaler, services>>

NextRolling == CreateRollingFeatures \/ CreateVolatilityFeatures
SpecRolling == InitRolling /\ [][NextRolling]_vars

(***************************************************************************)
(* SpecTech: create_technical_indicators (RSI, MACD, Bollinger, ATR,       *)
(* stochastic) applied to bounded inputs.                                  *)
(***************************************************************************)
InitTech ==
    /\ df \in {Frame(ps) : ps \in RampInputs(MaxTechLen, Steps)
                                  \cup KinkInputs(MaxTechLen)
                                  \cup SpikeInputs(MaxTechLen, {-Cent, 0, Cent})
                                  \cup SmallInputs(MaxSmallLen)}
    /\ df2 = NoFrame /\ out = NoFrame /\ out2 = NoFrame
    /\ NoTables /\ call = Idle /\ NewInstance /\ NoServices

CreateTechnicalIndicators ==
    /\ call = Idle
    /\ out' = create_technical_indicators(df)
    /\ call' = [name |-> "create_technical_indicators"]
    /\ UNCHANGED <<bitcoin_prices, features, result, df, df2, out2, scaler, services>>

NextTech == CreateTechnicalIndicators
SpecTech == InitTech /\ [][NextTech]_vars

(***************************************************************************)
(* SpecPair: engineer_all_features called on two inputs with the same      *)
(* timestamps.                                                             *)
(***************************************************************************)
InitPair ==
    /\ \E n \in 1..MaxPairLen :
          /\ df \in {Frame(ps) : ps \in [1..n -> PairPrices]}
          /\ df2 \in {Frame(ps) : ps \in [1..n -> PairPrices]}
    /\ out = NoFrame /\ out2 = NoFrame
    /\ NoTables /\ call = Idle /\ NewInstance /\ NoServices

EngineerFirst ==
    /\ out = NoFrame
    /\ \E r \in EngineerOutcomesOn(scaler, df) :
          out' = r.frame /\ scaler' = r.scaler
    /\ call' = [name |-> "engineer_all_features"]
    /\ UNCHANGED <<bitcoin_prices, features, result, df, df2, out2, services>>

EngineerSecond ==
    /\ out2 = NoFrame
    /\ \E r \in EngineerOutcomesOn(scaler, df2) :
          out2' = r.frame /\ scaler' = r.scaler
    /\ call' = [name |-> "engineer_all_features"]
    /\ UNCHANGED <<bitcoin_prices, features, result, df, df2, out, services>>

NextPair == EngineerFirst \/ EngineerSecond
SpecPair == InitPair /\ [][NextPair]_vars

(***************************************************************************)
(* SpecOrder: engineer_all_features on inputs given in any order, with     *)
(* timestamps that may repeat.                                             *)
(***************************************************************************)
OrderInputs ==
    UNION {{[t \in 1..n |-> [timestamp |-> ts[t], price |-> ps[t], source |-> "binance"]] :
               ts \in [1..n -> 0..(MaxOrderLen - 1)], ps \in [1..n -> PairPrices]} :
           n \in 1..MaxOrderLen}

InitOrder ==
    /\ df \in OrderInputs
    /\ df2 = NoFrame /\ out = NoFrame /\ out2 = NoFrame
    /\ NoTables /\ call = Idle /\ NewInstance /\ NoServices

EngineerAllFeatures ==
    /\ call = Idle
    /\ \E r \in EngineerOutcomesOn(scaler, df) :
          out' = r.frame /\ scaler' = r.scaler
    /\ call' = [name |-> "engineer_all_features"]
    /\ UNCHANGED <<bitcoin_prices, features, result, df, df2, out2, services>>

\* prepare_enriched_record on one row of the engineered DataFrame
PrepareEnrichedRecord ==
    /\ out # NoFrame
    /\ \E i \in 1..Len(out) :
          /\ result' = [kind |-> "record", rec |-> prepare_enriched_record(out[i])]
          /\ call' = [name |-> "prepare_enriched_record", row |-> i]
    /\ UNCHANGED <<bitcoin_prices, features, df, df2, out, out2, scaler, services>>

NextOrder == EngineerAllFeatures \/ PrepareEnrichedRecord
SpecOrder == InitOrder /\ [][NextOrder]_vars

(***************************************************************************)
(* SpecZones: create_temporal_features on two DataFrames that hold the     *)
(* same instants, each in its own time zone.  A timestamp column is naive  *)
(* or aware with a UTC offset in minutes; the timestamp of a row is its    *)
(* wall-clock time, which is what the .dt accessors read.  A naive column  *)
(* is localized to UTC, which leaves the wall-clock time as it is; an      *)
(* aware column is not converted.                                          *)
(***************************************************************************)
NaiveZone == [aware |-> FALSE, offset |-> 0]
Zone(offset) == [aware |-> TRUE, offset |-> offset]
Zones == {NaiveZone, Zone(0), Zone(-180), Zone(330)}
\* 1970-01-02 00:15, 2020-12-31 21:00, 2021-01-03 22:45, 2024-12-29 23:30,
\* 2026-11-03 05:10 and 12:59 (UTC)
ZoneInstants == {1455, 26824140, 26828565, 28925250, 29894710, 29895179}

\* the wall-clock time of an instant in a zone (a naive time denotes UTC)
WallClock(instant, zone) == IF zone.aware THEN instant + zone.offset ELSE instant
\* the instant a row denotes
InstantOf(row) == IF row.tz.aware THEN row.timestamp - row.tz.offset ELSE row.timestamp

ZoneFrame(start, n, zone) ==
    [t \in 1..n |-> [timestamp |-> WallClock(start + t - 1, zone), tz |-> zone,
                     price |-> BasePrice, source |-> "binance"]]

InitZones ==
    /\ \E start \in ZoneInstants, n \in 1..MaxZoneLen :
          /\ df \in {ZoneFrame(start, n, zone) : zone \in Zones}
          /\ df2 \in {ZoneFrame(start, n, zone) : zone \in Zones}
    /\ out = NoFrame /\ out2 = NoFrame
    /\ NoTables /\ call = Idle /\ NewInstance /\ NoServices

TemporalFirst ==
    /\ out = NoFrame
    /\ out' = create_temporal_features(df)
    /\ call' = [name |-> "create_temporal_features"]
    /\ UNCHANGED <<bitcoin_prices, features, result, df, df2, out2, scaler, services>>

TemporalSecond ==
    /\ out2 = NoFrame
    /\ out2' = create_temporal_features(df2)
    /\ call' = [name |-> "create_temporal_features"]
    /\ UNCHANGED <<bitcoin_prices, features, result, df, df2, out, scaler, services>>

NextZones == TemporalFirst \/ TemporalSecond
SpecZones == InitZones /\ [][NextZones]_vars

(***************************************************************************)
(* Spec: the price collector fills bitcoin_prices one row per minute; the  *)
(* DataEnricher is run on the stored prices.                               *)
(***************************************************************************)
StoredPrices == {100 * Cent, 110 * Cent}
BatchSizes == {1, 2}
Limits == {0, 1}         \* limit: None (0) or the first row only
Fails == {-1, 0, 1, 2}   \* the statement of save_enriched_data that raises

Init ==
    /\ bitcoin_prices = << >> /\ features = << >> /\ result = NoResult
    /\ NoCalls /\ call = Idle /\ NewInstance /\ NoServices

NextMinute(prices) == IF prices = << >> THEN 0 ELSE prices[Len(prices)].timestamp + 1

\* BitcoinPriceCollector.save_price: timestamp is the server's now()
SavePrice ==
    /\ Len(bitcoin_prices) < MaxHistory
    /\ \E price \in StoredPrices :
          bitcoin_prices' = Append(bitcoin_prices,
              [price |-> price, timestamp |-> NextMinute(bitcoin_prices),
               source |-> "binance"])
    /\ call' = [name |-> "save_price"]
    /\ UNCHANGED <<features, result, df, df2, out, out2, scaler, services>>

EnrichHistoricalData ==
    \E limit \in Limits, batch_size \in BatchSizes, fail \in Fails :
        LET r == EnrichHistoricalOn(scaler, bitcoin_prices, features, limit,
                                    batch_size, fail)
        IN  /\ features' = r.table
            /\ result' = [kind |-> "bool", ok |-> r.ok]
            /\ scaler' = r.scaler
            /\ call' = [name |-> "enrich_historical_data", limit |-> limit,
                        batch_size |-> batch_size, fail |-> fail]
            /\ UNCHANGED <<bitcoin_prices, df, df2, out, out2, services>>

\* the timestamps given for a new point: the next minute, or one already stored
NewTimestamps(prices) ==
    {ts \in (NextMinute(prices) - MaxBack)..NextMinute(prices) : ts >= 0}

EnrichSingleRecordAt(timestamps) ==
    \E price \in StoredPrices, timestamp \in timestamps :
        /\ \E r \in EnrichSingleOutcomesOn(scaler, bitcoin_prices, price,
                                           timestamp, "binance") :
              result' = r.result /\ scaler' = r.scaler
        /\ call' = [name |-> "enrich_single_record", price |-> price,
                    timestamp |-> timestamp]
        /\ UNCHANGED <<bitcoin_prices, features, df, df2, out, out2, services>>

EnrichSingleRecord == EnrichSingleRecordAt(NewTimestamps(bitcoin_prices))

Next == SavePrice \/ EnrichHistoricalData \/ EnrichSingleRecord
Spec == Init /\ [][Next]_vars

(***************************************************************************)
(* SpecHistory: enrich_single_record on a long stored history.             *)
(***************************************************************************)
LongPrices == {10 * Cent, 100 * Cent, 700 * Cent}
InitHistory ==
    /\ bitcoin_prices \in
          {Frame(Shift2(n, old, new, k)) :
              n \in MinHistory..MaxLongHistory, old \in LongPrices,
              new \in LongPrices, k \in (MaxShiftAt - 3)..MaxShiftAt}
    /\ features = << >> /\ result = NoResult
    /\ NoCalls /\ call = Idle /\ NewInstance /\ NoServices

\* the new point is always the latest one
EnrichLatest == EnrichSingleRecordAt({NextMinute(bitcoin_prices)})

NextHistory == EnrichLatest
SpecHistory == InitHistory /\ [][NextHistory]_vars

(***************************************************************************)
(* SpecSteps: every step of the BitcoinFeatureEngineer, and the whole      *)
(* pipeline, called on a DataFrame the caller keeps.  df is the caller's   *)
(* table, before and after the call.                                       *)
(***************************************************************************)
MaxMomentumLen == 32

\* (mutant) no copy: the step works on the caller's table
copy_Shared(d) == [frame |-> d, shared |-> TRUE]

\* DataFrame.copy(): a new table with the rows of d (deep by default)
copy(d) == [frame |-> d, shared |-> FALSE]

\* the caller's table after `df = df.copy(); df[...] = ...; return df`
CallerTable(d, returned) == IF copy(d).shared THEN returned ELSE d

\* the rows of d in the opposite order
Reversed(d) == [t \in 1..Len(d) |-> d[Len(d) + 1 - t]]

StepInputs ==
    {Frame(ps) : ps \in SmallInputs(MaxSmallLen) \cup LongInputs(MaxMomentumLen)}
    \cup {Reversed(Frame(ps)) : ps \in SmallInputs(MaxSmallLen)}

InitSteps ==
    /\ df \in StepInputs
    /\ df2 = NoFrame /\ out = NoFrame /\ out2 = NoFrame
    /\ NoTables /\ call = Idle /\ NewInstance /\ NoServices

\* a step that leaves the scaler alone returns `returned`
StepReturns(name, returned) ==
    /\ call = Idle
    /\ out' = returned
    /\ df' = CallerTable(df, returned)
    /\ call' = [name |-> name]
    /\ UNCHANGED <<bitcoin_prices, features, result, df2, out2, scaler, services>>

StepTemporal == StepReturns("create_temporal_features", create_temporal_features(df))

StepLag == StepReturns("create_lag_features", create_lag_features(df))

StepRolling == StepReturns("create_rolling_features", create_rolling_features(df))

StepTechnical ==
    StepReturns("create_technical_indicators", create_technical_indicators(df))

StepVolatility ==
    StepReturns("create_volatility_features", create_volatility_features(df))

StepMomentum == StepReturns("create_momentum_features", create_momentum_features(df))

StepNormalize ==
    /\ call = Idle
    /\ \E r \in {NormalizeOn(scaler, df)} :
          /\ out' = r.frame
          /\ scaler' = r.scaler
          /\ df' = CallerTable(df, r.frame)
    /\ call' = [name |-> "normalize_features"]
    /\ UNCHANGED <<bitcoin_prices, features, result, df2, out2, services>>

NextSteps ==
    \/ StepTemporal \/ StepLag \/ StepRolling \/ StepTechnical
    \/ StepVolatility \/ StepMomentum \/ StepNormalize
    \/ EngineerAllFeatures
SpecSteps == InitSteps /\ [][NextSteps]_vars

(***************************************************************************)
(* PredictionStorageService.  A row of bitcoin_predictions keeps the       *)
(* columns update_with_actual_values reads or writes; the model metrics,   *)
(* probabilities and run ids are stored once and never read again.  A      *)
(* column is None when NULL and Some(x) when it holds x; a price is a      *)
(* plain integer.                                                          *)
(***************************************************************************)
Some(x) == [k |-> "some", v |-> x]
IsNone(x) == x.k = "none"

\* (mutant) a price equal to the current one counts as UP
actual_trend_OrEqual(actual_price, current_price) ==
    IF actual_price >= current_price THEN "UP" ELSE "DOWN"

\* "UP" if actual_price > current_price else "DOWN"
actual_trend(actual_price, current_price) ==
    IF actual_price > current_price THEN "UP" ELSE "DOWN"

\* the table after store_prediction has committed the new row
store_prediction(table, price_prediction, trend_prediction) ==
    Append(table,
           [timestamp |-> price_prediction.timestamp,
            current_price |-> price_prediction.current_price,
            predicted_price |-> price_prediction.predicted_price,
            predicted_trend |-> trend_prediction.trend,
            actual_price |-> None, actual_trend |-> None,
            prediction_error |-> None, trend_correct |-> None])

\* query(BitcoinPrice) with timestamp in [lo, hi], order_by(timestamp),
\* first(): the index of the row, 0 when there is none
FirstPriceIn(prices, lo, hi) ==
    LET found == {j \in 1..Len(prices) :
                     prices[j].timestamp >= lo /\ prices[j].timestamp <= hi}
    IN  IF found = {} THEN 0
        ELSE CHOOSE j \in found : \A k \in found : j <= k

\* one prediction of the loop of update_with_actual_values
Verify(prediction, prices) ==
    The({ IF j = 0 THEN prediction
          ELSE The({ [prediction EXCEPT
                         !.actual_price = Some(prices[j].price),
                         !.actual_trend = Some(trend),
                         !.prediction_error =
                             Some(prices[j].price - prediction.predicted_price),
                         !.trend_correct =
                             Some(IF trend = prediction.predicted_trend
                                  THEN 1 ELSE 0)] :
                     trend \in {actual_trend(prices[j].price,
                                             prediction.current_price)} }) :
          j \in {FirstPriceIn(prices, prediction.timestamp + 14,
                              prediction.timestamp + 16)} })

\* the table after update_with_actual_values at time clock; when the commit
\* raises (fail) the rollback leaves the table as it was
update_with_actual_values(table, prices, clock, fail) ==
    LET target_time == clock - 15
        min_time == target_time - 1
        max_time == target_time + 1
        selected(p) == /\ p.timestamp >= min_time
                       /\ p.timestamp <= max_time
                       /\ IsNone(p.actual_price)
    IN  IF fail THEN table
        ELSE [i \in 1..Len(table) |->
                 IF selected(table[i]) THEN Verify(table[i], prices) ELSE table[i]]

\* cleanup_old_predictions(days): rows older than the cutoff are deleted
RetentionDays == 90
cleanup_old_predictions(table, clock, days) ==
    SelectSeq(table, LAMBDA p : ~(p.timestamp < clock - days * 1440))

\* PredictionCollector._collect_and_store_predictions at time clock.
\* get_latest_prediction returns a bare float (or raises), so indexing it in
\* store_prediction raises; the exception is logged and no row is stored.
\* Then the old predictions are updated and, at minute 0 of an hour, cleaned.
collect_and_store_predictions(table, prices, clock, fail) ==
    The({ IF DtMinute(clock) = 0
          THEN cleanup_old_predictions(updated, clock, RetentionDays)
          ELSE updated :
          updated \in {update_with_actual_values(table, prices, clock, fail)} })

(***************************************************************************)
(* SpecVerify: predictions are stored, prices are saved and the collection *)
(* cycle runs, each at any minute.  SpecVerifyFair lets the cycle run      *)
(* whenever it stays due.                                                  *)
(***************************************************************************)
MaxNow == 17
MaxPredictions == 2
MaxPrices == 2
\* the collector of prices starts at this minute: no prediction is older
\* than minute 0, so an earlier price is in no prediction's window
FirstPriceAt == 14
ActualPrices == {100 * Cent, 101 * Cent}
Trends == {"UP", "DOWN"}

InitVerify ==
    /\ NoTables /\ NoCalls /\ call = Idle /\ NewInstance /\ NoServices

\* a minute passes (the clock is followed up to minute limit)
TickUntil(limit) ==
    /\ now < limit
    /\ now' = now + 1
    /\ UNCHANGED <<bitcoin_prices, features, result, df, df2, out, out2, call,
                   scaler, predictions, running, tasks>>

Tick == TickUntil(MaxNow)

\* BitcoinPriceCollector.save_price at the current minute
SavePriceNow ==
    /\ Len(bitcoin_prices) < MaxPrices
    /\ now >= FirstPriceAt
    /\ \E price \in ActualPrices :
          bitcoin_prices' = Append(bitcoin_prices,
              [price |-> price, timestamp |-> now, source |-> "binance"])
    /\ call' = [name |-> "save_price"]
    /\ UNCHANGED <<features, result, df, df2, out, out2, scaler, services>>

\* store_prediction with the predictions of the two models for this minute
StorePrediction ==
    /\ Len(predictions) < MaxPredictions
    /\ now + 16 <= MaxNow
    /\ \E trend \in Trends :
          predictions' = store_prediction(predictions,
              [timestamp |-> now, current_price |-> BasePrice,
               predicted_price |-> BasePrice],
              [trend |-> trend])
    /\ call' = [name |-> "store_prediction"]
    /\ UNCHANGED <<bitcoin_prices, features, result, df, df2, out, out2, scaler,
                   now, running, tasks>>

\* one cycle of the PredictionCollector
CollectAndStorePredictions ==
    /\ \E fail \in BOOLEAN :
          predictions' = collect_and_store_predictions(predictions, bitcoin_prices,
                                                       now, fail)
    /\ call' = [name |-> "_collect_and_store_predictions"]
    /\ UNCHANGED <<bitcoin_prices, features, result, df, df2, out, out2, scaler,
                   now, running, tasks>>

NextVerify == Tick \/ SavePriceNow \/ StorePrediction \/ CollectAndStorePredictions
SpecVerify == InitVerify /\ [][NextVerify]_vars
SpecVerifyFair == SpecVerify /\ WF_vars(CollectAndStorePredictions)

(***************************************************************************)
(* BitcoinPriceCollector and PredictionCollector.  A task is one call of   *)
(* start_collection run by the event loop; it moves from one await to the  *)
(* next in one step.  pc is the await it is suspended at: "fetch"          *)
(* (fetch_bitcoin_price), "sleep" (the 60 s sleep), "backoff" (the 10 s    *)
(* sleep of the price collector's except branch), or "done" when the       *)
(* coroutine has ended.  wake is the minute a 60 s sleep ends.             *)
(***************************************************************************)
MaxTasks == 2
MaxMinutes == 2
Suspended(pc, wake) == [pc |-> pc, wake |-> wake]
Done == Suspended("done", 0)
Active(c) == {i \in 1..Len(tasks[c]) : tasks[c][i].pc # "done"}

\* while self.running: the next await of a price loop, or its end
PriceLoopTest(flag) == IF flag THEN Suspended("fetch", 0) ELSE Done

\* BitcoinPriceCollector.start_collection up to its first await
PriceCollectorStart ==
    /\ Len(tasks["price_collector"]) < MaxTasks
    /\ IF running["price_collector"]
       THEN /\ tasks' = [tasks EXCEPT !["price_collector"] = Append(@, Done)]
            /\ UNCHANGED running
       ELSE /\ running' = [running EXCEPT !["price_collector"] = TRUE]
            /\ tasks' = [tasks EXCEPT
                            !["price_collector"] = Append(@, PriceLoopTest(TRUE))]
    /\ call' = [name |-> "start_collection", collector |-> "price_collector"]
    /\ UNCHANGED <<bitcoin_prices, features, result, df, df2, out, out2, scaler,
                   predictions, now>>

\* fetch_bitcoin_price has returned a price or None (every error is caught
\* there); a price is saved with the server's now(); then the 60 s sleep
PriceFetched ==
    /\ \E i \in 1..Len(tasks["price_collector"]) :
          /\ tasks["price_collector"][i].pc = "fetch"
          /\ tasks' = [tasks EXCEPT
                          !["price_collector"][i] = Suspended("sleep", now + 1)]
    /\ \E fetched \in BOOLEAN :
          bitcoin_prices' =
              IF fetched /\ Len(bitcoin_prices) < MaxPrices
              THEN Append(bitcoin_prices,
                          [price |-> BasePrice, timestamp |-> now,
                           source |-> "binance"])
              ELSE bitcoin_prices
    /\ call' = [name |-> "save_price"]
    /\ UNCHANGED <<features, result, df, df2, out, out2, scaler, predictions,
                   now, running>>

\* wait_for(sleep(60), timeout=60) is over: it returns and the loop tests
\* self.running, or the timeout wins the race and TimeoutError reaches the
\* except Exception branch, which sleeps 10 s
PriceWake ==
    /\ \E i \in 1..Len(tasks["price_collector"]), timed_out \in BOOLEAN :
          /\ tasks["price_collector"][i].pc = "sleep"
          /\ tasks["price_collector"][i].wake <= now
          /\ tasks' = [tasks EXCEPT !["price_collector"][i] =
                          IF timed_out THEN Suspended("backoff", 0)
                          ELSE PriceLoopTest(running["price_collector"])]
    /\ call' = [name |-> "wake"]
    /\ UNCHANGED <<bitcoin_prices, features, result, df, df2, out, out2, scaler,
                   predictions, now, running>>

\* wait_for(sleep(10), timeout=10) is over: it returns, or its TimeoutError
\* leaves the except branch and ends the coroutine with running untouched
PriceBackoffOver ==
    /\ \E i \in 1..Len(tasks["price_collector"]), timed_out \in BOOLEAN :
          /\ tasks["price_collector"][i].pc = "backoff"
          /\ tasks' = [tasks EXCEPT !["price_collector"][i] =
                          IF timed_out THEN Done
                          ELSE PriceLoopTest(running["price_collector"])]
    /\ call' = [name |-> "backoff"]
    /\ UNCHANGED <<bitcoin_prices, features, result, df, df2, out, out2, scaler,
                   predictions, now, running>>

\* BitcoinPriceCollector.stop_collection: collection_task is never assigned,
\* so nothing is awaited after the flag is cleared and the session closed
PriceCollectorStop ==
    /\ running["price_collector"]
    /\ running' = [running EXCEPT !["price_collector"] = FALSE]
    /\ call' = [name |-> "stop_collection", collector |-> "price_collector"]
    /\ UNCHANGED <<bitcoin_prices, features, result, df, df2, out, out2, scaler,
                   predictions, now, tasks>>

\* PredictionCollector.start_collection up to its first await: the first
\* cycle has no await and runs at once
PredictionCollectorStart ==
    /\ Len(tasks["prediction_collector"]) < MaxTasks
    /\ IF running["prediction_collector"]
       THEN /\ tasks' = [tasks EXCEPT !["prediction_collector"] = Append(@, Done)]
            /\ UNCHANGED <<running, predictions>>
       ELSE /\ running' = [running EXCEPT !["prediction_collector"] = TRUE]
            /\ \E fail \in BOOLEAN :
                  predictions' = collect_and_store_predictions(
                                     predictions, bitcoin_prices, now, fail)
            /\ tasks' = [tasks EXCEPT !["prediction_collector"] =
                            Append(@, Suspended("sleep", now + 1))]
    /\ call' = [name |-> "start_collection", collector |-> "prediction_collector"]
    /\ UNCHANGED <<bitcoin_prices, features, result, df, df2, out, out2, scaler,
                   now>>

\* asyncio.sleep(60) is over: the loop tests self.running and runs the next
\* cycle, or ends through the finally branch
PredictionWake ==
    /\ \E i \in 1..Len(tasks["prediction_collector"]) :
          /\ tasks["prediction_collector"][i].pc = "sleep"
          /\ tasks["prediction_collector"][i].wake <= now
          /\ IF running["prediction_collector"]
             THEN /\ \E fail \in BOOLEAN :
                        predictions' = collect_and_store_predictions(
                                           predictions, bitcoin_prices, now, fail)
                  /\ tasks' = [tasks EXCEPT !["prediction_collector"][i] =
                                  Suspended("sleep", now + 1)]
                  /\ UNCHANGED running
             ELSE /\ tasks' = [tasks EXCEPT !["prediction_collector"][i] = Done]
                  /\ running' = [running EXCEPT !["prediction_collector"] = FALSE]
                  /\ UNCHANGED predictions
    /\ call' = [name |-> "wake"]
    /\ UNCHANGED <<bitcoin_prices, features, result, df, df2, out, out2, scaler,
                   now>>

\* PredictionCollector.stop_collection
PredictionCollectorStop ==
    /\ running["prediction_collector"]
    /\ running' = [running EXCEPT !["prediction_collector"] = FALSE]
    /\ call' = [name |-> "stop_collection", collector |-> "prediction_collector"]
    /\ UNCHANGED <<bitcoin_prices, features, result, df, df2, out, out2, scaler,
                   predictions, now, tasks>>

\* Task.cancel() on a suspended task: CancelledError is raised at its await.
\* The price loop breaks and leaves running as it is; the prediction loop
\* ends through except CancelledError and finally, which clears running.
CancelTask ==
    /\ \E c \in Collectors :
          \E i \in Active(c) :
              /\ tasks' = [tasks EXCEPT ![c][i] = Done]
              /\ running' = IF c = "prediction_collector"
                            THEN [running EXCEPT ![c] = FALSE]
                            ELSE running
              /\ call' = [name |-> "cancel", collector |-> c]
    /\ UNCHANGED <<bitcoin_prices, features, result, df, df2, out, out2, scaler,
                   predictions, now>>

TickCollectors == TickUntil(MaxMinutes)

InitCollectors ==
    /\ NoTables /\ NoCalls /\ call = Idle /\ NewInstance /\ NoServices

NextCollectors ==
    \/ PriceCollectorStart \/ PriceFetched \/ PriceWake \/ PriceBackoffOver
    \/ PriceCollectorStop
    \/ PredictionCollectorStart \/ PredictionWake \/ PredictionCollectorStop
    \/ CancelTask \/ TickCollectors
SpecCollectors == InitCollectors /\ [][NextCollectors]_vars

(***************************************************************************)
(* Properties.                                                             *)
(***************************************************************************)
Columns == {get_feature_columns[c] : c \in 1..Len(get_feature_columns)}
Engineered == out # NoFrame /\ out2 # NoFrame
SamePrefix(i) == \A j \in 1..i : df[j].price = df2[j].price

\* C1: two inputs that agree on rows 0..i get the same value at row i in
\* every column of get_feature_columns, whatever their later rows are.
C1_NoLookahead ==
    Engineered =>
        \A i \in 1..Len(df) :
            SamePrefix(i) => \A c \in Columns : out[i][c] = out2[i][c]

\* two floats are equal within the tolerance (None and NaN only equal themselves)
Close(a, b) ==
    \/ a = b
    \/ a.k = "num" /\ b.k = "num" /\ Abs(a.v - b.v) <= Tolerance

NewPoint == [price |-> call.price, timestamp |-> call.timestamp, source |-> "binance"]
\* the last row of the batch pass over the stored history and the new point
BatchLast ==
    The({prepare_enriched_record(enriched[Len(enriched)]) :
         enriched \in {engineer_all_features(Append(bitcoin_prices, NewPoint))}})
CalendarColumns == {"minute_of_hour", "hour_of_day", "day_of_week", "week_of_year"}

\* C2: with at least 120 stored points, the record enrich_single_record
\* returns for a new point equals the last row of the batch pass over the
\* full history in every feature except price_normalized.
C2_BatchIncrementalConsistency ==
    (call.name = "enrich_single_record" /\ Len(bitcoin_prices) >= 120) =>
        /\ result.kind = "record"
        /\ \A c \in CalendarColumns : result.rec[c] = BatchLast[c]
        /\ \A c \in (Columns \ CalendarColumns) \ {"price_normalized"} :
              Close(result.rec[c], BatchLast[c])

\* C3: with fewer than 60 stored points enrich_single_record returns no
\* record.
C3_ShortHistoryFails ==
    (call.name = "enrich_single_record" /\ Len(bitcoin_prices) < 60) =>
        result = NoRecord

\* C4: a row of the feature table is never changed or deleted by a later
\* step.
C4_FeaturesAppendOnly ==
    [][\A i \in 1..Len(features) :
          \E j \in 1..Len(features') : features'[j] = features[i]]_vars

Lags == {1, 5, 15, 30, 60}
LagOf(row, L) ==
    CASE L = 1 -> row.price_lag_1min
      [] L = 5 -> row.price_lag_5min
      [] L = 15 -> row.price_lag_15min
      [] L = 30 -> row.price_lag_30min
      [] L = 60 -> row.price_lag_60min

\* C5: price_lag_Lmin at row t is the price of row t-L when t >= L and null
\* when t < L (row t is out[t+1]).
C5_LagFeatures ==
    call.name = "create_lag_features" =>
        /\ Len(out) = Len(df)
        /\ \A t \in 1..Len(out) : \A L \in Lags :
              LagOf(out[t], L) = IF t - 1 >= L THEN Num(df[t - L].price) ELSE NaN

C5_Witness ==
    /\ call.name = "create_lag_features"
    /\ Len(out) > 60
    /\ \A L \in Lags : IsNaN(LagOf(out[1], L))
    /\ LagOf(out[Len(out)], 60) = Num(df[Len(df) - 60].price)
    /\ LagOf(out[Len(out)], 60) # LagOf(out[Len(out)], 1)

\* C6: every rolling mean, std, min and max column and volatility_30min
\* holds a number at every row, row 0 included.
C6_RollingDefined ==
    /\ call.name = "create_rolling_features" =>
          \A t \in 1..Len(out) :
              \A c \in {"rolling_mean_5min", "rolling_mean_15min", "rolling_mean_30min",
                        "rolling_mean_60min", "rolling_std_5min", "rolling_std_15min",
                        "rolling_std_30min", "rolling_std_60min",
                        "rolling_min_30min", "rolling_max_30min"} : IsNum(out[t][c])
    /\ call.name = "create_volatility_features" =>
          \A t \in 1..Len(out) : IsNum(out[t].volatility_30min)

IsFlat(d) == \A t \in 1..Len(d) : d[t].price = d[1].price
IsIncreasing(d) == \A t \in 2..Len(d) : d[t].price > d[t - 1].price
IsDecreasing(d) == \A t \in 2..Len(d) : d[t].price < d[t - 1].price

\* C7: a constant series of at least 20 rows has bb_width 0 and bb_position
\* 0.5 at every row.
C7_FlatSeries ==
    (call.name = "create_technical_indicators" /\ Len(df) >= 20 /\ IsFlat(df)) =>
        \A t \in 1..Len(out) :
            out[t].bb_width = Num(0) /\ out[t].bb_position = Num(SCALE \div 2)

\* C8: bb_position, where it is not null, lies in [0,1]; it is 1 when the
\* price is above the upper band and 0 when it is below the lower band.
C8_BollingerClamp ==
    call.name = "create_technical_indicators" =>
        \A t \in 1..Len(out) :
            /\ ~IsNaN(out[t].bb_position) =>
                  /\ IsNum(out[t].bb_position)
                  /\ out[t].bb_position.v >= 0
                  /\ out[t].bb_position.v <= SCALE
            /\ FGt(Num(out[t].price), out[t].bb_upper) =>
                  out[t].bb_position = Num(SCALE)
            /\ FLt(Num(out[t].price), out[t].bb_lower) =>
                  out[t].bb_position = Num(0)

C8_Witness ==
    /\ call.name = "create_technical_indicators"
    /\ \E t \in 1..Len(out) :
          /\ FGt(Num(out[t].price), out[t].bb_upper)
          /\ out[t].bb_position = Num(SCALE)
    /\ \E t \in 1..Len(out) :
          /\ IsNum(out[t].bb_position)
          /\ out[t].bb_position.v > 0 /\ out[t].bb_position.v < SCALE

\* C9: on a strictly increasing series of at least 14 rows rsi_14 is 100 at
\* every row after the first; on a strictly decreasing one it is 0.
C9_RsiBoundary ==
    (call.name = "create_technical_indicators" /\ Len(df) >= 14) =>
        /\ IsIncreasing(df) =>
              \A t \in 2..Len(out) : out[t].rsi_14 = Num(100 * SCALE)
        /\ IsDecreasing(df) =>
              \A t \in 2..Len(out) : out[t].rsi_14 = Num(0)

C9_Witness ==
    /\ call.name = "create_technical_indicators"
    /\ Len(df) >= 16
    /\ IsIncreasing(df)
    /\ out[2].rsi_14 = Num(100 * SCALE)
    /\ out[Len(out)].rsi_14 = Num(100 * SCALE)

\* no price fell within the trailing 14 rows of row t: the average loss is 0
NoLossInWindow(d, t) ==
    \A i \in WinLo(t, 14)..t : i = 1 \/ d[i].price >= d[i - 1].price

\* C10: when the average loss over the RSI window is zero rsi_14 is 100, and
\* rsi_14 is a number in [0,100] at every row.
C10_RsiSaturation ==
    call.name = "create_technical_indicators" =>
        \A t \in 1..Len(out) :
            /\ NoLossInWindow(df, t) => out[t].rsi_14 = Num(100 * SCALE)
            /\ IsNum(out[t].rsi_14)
            /\ out[t].rsi_14.v >= 0 /\ out[t].rsi_14.v <= 100 * SCALE

DistinctTimestamps(d) ==
    \A i, j \in 1..Len(d) : i # j => d[i].timestamp # d[j].timestamp

\* C11: for a non-empty input with distinct timestamps in any order,
\* engineer_all_features returns one row per input row, in ascending
\* timestamp order, each with the price of the input point of its timestamp.
C11_OneToOneOrdered ==
    (call.name = "engineer_all_features" /\ DistinctTimestamps(df)) =>
        /\ Len(out) = Len(df)
        /\ \A j \in 2..Len(out) : out[j - 1].timestamp < out[j].timestamp
        /\ \A i \in 1..Len(df) : \E j \in 1..Len(out) :
              out[j].timestamp = df[i].timestamp /\ out[j].price = df[i].price

C11_Witness ==
    /\ call.name = "engineer_all_features"
    /\ DistinctTimestamps(df)
    /\ Len(df) = MaxOrderLen
    /\ df[1].timestamp > df[2].timestamp
    /\ df[1].price # df[2].price
    /\ out[Len(out)].timestamp > out[1].timestamp

\* C12: the output of engineer_all_features never holds two rows with the
\* same timestamp.
C12_NoDuplicateTimestamps ==
    call.name = "engineer_all_features" => DistinctTimestamps(out)

\* C13: with no stored price, enrich_historical_data returns False,
\* enrich_single_record returns no record, and the feature table is left as
\* it was.
C13_EmptyInput ==
    [][(bitcoin_prices = << >>
        /\ call'.name \in {"enrich_historical_data", "enrich_single_record"}) =>
          /\ features' = features
          /\ call'.name = "enrich_historical_data" =>
                result' = [kind |-> "bool", ok |-> FALSE]
          /\ call'.name = "enrich_single_record" => result' = NoRecord]_vars

C13_Witness ==
    /\ bitcoin_prices = << >>
    /\ call.name = "enrich_historical_data"
    /\ call.fail = 0
    /\ result = [kind |-> "bool", ok |-> FALSE]
    /\ features = << >>

\* the shift a column's formula applies to the price series: the column needs
\* that many rows before its own
ShiftOf(c) ==
    CASE c \in {"price_lag_1min", "price_change_1min", "price_change_pct_1min",
                "atr_14"} -> 1
      [] c \in {"price_lag_5min", "price_change_5min", "price_change_pct_5min",
                "momentum_5min"} -> 5
      [] c \in {"price_lag_15min", "price_change_15min", "price_change_pct_15min",
                "momentum_15min"} -> 15
      [] c \in {"price_lag_30min", "momentum_30min"} -> 30
      [] c = "price_lag_60min" -> 60
      [] OTHER -> 0

\* C14: the record of prepare_enriched_record holds null exactly where the
\* engine's value is NaN and the engine's value elsewhere, and no feature
\* that needs a row before the first one is output as 0.
C14_NullNeverZero ==
    call.name = "prepare_enriched_record" =>
        /\ \A c \in CalendarColumns : result.rec[c] = out[call.row][c]
        /\ \A c \in Columns \ CalendarColumns :
              /\ (result.rec[c] = None) <=> IsNaN(out[call.row][c])
              /\ ~IsNaN(out[call.row][c]) => result.rec[c] = out[call.row][c]
              /\ call.row <= ShiftOf(c) => result.rec[c] # Num(0)

BaseFields == {"price", "timestamp", "source"}

\* C15: get_feature_columns has no duplicates, and its names are the columns
\* engineer_all_features adds and the feature fields prepare_enriched_record
\* writes.
C15_FeatureRegistry ==
    /\ \A i, j \in 1..Len(get_feature_columns) :
          i # j => get_feature_columns[i] # get_feature_columns[j]
    /\ call.name = "engineer_all_features" =>
          \A t \in 1..Len(out) : (DOMAIN out[t]) \ (DOMAIN df[1]) = Columns
    /\ call.name = "prepare_enriched_record" =>
          (DOMAIN result.rec) \ BaseFields = Columns

C15_Witness ==
    /\ call.name = "prepare_enriched_record"
    /\ Cardinality(Columns) = 43
    /\ Cardinality(DOMAIN result.rec) = 46
    /\ Cardinality(DOMAIN out[call.row]) = 46

\* C16: the record enrich_single_record returns has the price and the
\* timestamp of the new point.
C16_ReturnsNewPoint ==
    (call.name = "enrich_single_record" /\ result.kind = "record") =>
        /\ result.rec.price = call.price
        /\ result.rec.timestamp = call.timestamp

\* C17: what engineer_all_features returns on an instance does not depend on
\* the calls made on the instance before.
C17_NoStateAcrossCalls ==
    /\ out # NoFrame => out = engineer_all_features(df)
    /\ out2 # NoFrame => out2 = engineer_all_features(df2)

C17_Witness ==
    /\ Engineered
    /\ scaler.fitted
    /\ MinMaxFit(PriceCol(df)) # MinMaxFit(PriceCol(df2))
    /\ out2 = engineer_all_features(df2)
    /\ \E t \in 1..Len(out2) :
          out2[t].price_normalized # MinMaxTransform(MinMaxFit(PriceCol(df)),
                                                     PriceCol(df2))[t]

TemporalInRange(row) ==
    /\ row.minute_of_hour \in 0..59
    /\ row.hour_of_day \in 0..23
    /\ row.day_of_week \in 0..6
    /\ row.week_of_year \in 1..53

\* C18: the four temporal features are in range at every row, and two rows
\* that denote the same instant, whatever their time zones, get the same
\* four values (a naive timestamp denoting a UTC time).
C18_TemporalZones ==
    Engineered =>
        \A t \in 1..Len(out) :
            /\ TemporalInRange(out[t]) /\ TemporalInRange(out2[t])
            /\ InstantOf(df[t]) = InstantOf(df2[t]) =>
                  \A c \in CalendarColumns : out[t][c] = out2[t][c]

Horizons == {1, 5, 15}
ChangeOf(row, H) ==
    CASE H = 1 -> row.price_change_1min
      [] H = 5 -> row.price_change_5min
      [] H = 15 -> row.price_change_15min
PctOf(row, H) ==
    CASE H = 1 -> row.price_change_pct_1min
      [] H = 5 -> row.price_change_pct_5min
      [] H = 15 -> row.price_change_pct_15min
\* 100 * (a - b) / b in 1/SCALE, rounded towards zero
PctExpected(a, b) == Sign(a - b) * LongDiv(Abs(a - b), b, 6).q

\* C19: for H in {1,5,15} and t >= H, price_change_Hmin[t] is
\* price[t] - price[t-H] and price_change_pct_Hmin[t] is
\* 100 * (price[t] - price[t-H]) / price[t-H]; both are null for t < H.
\* (A percentage is compared within 0.01, the resolution the model holds
\* it to: 100 units of 1/SCALE.)
C19_PriceChange ==
    call.name = "create_volatility_features" =>
        \A t \in 1..Len(out) : \A H \in Horizons :
            IF t - 1 >= H
            THEN /\ ChangeOf(out[t], H) = Num(df[t].price - df[t - H].price)
                 /\ IsNum(PctOf(out[t], H))
                 /\ Abs(PctOf(out[t], H).v
                        - PctExpected(df[t].price, df[t - H].price)) <= 100
            ELSE IsNaN(ChangeOf(out[t], H)) /\ IsNaN(PctOf(out[t], H))

C19_Witness ==
    /\ call.name = "create_volatility_features"
    /\ PriceCol(df) = <<Num(100 * Cent), Num(101 * Cent), Num(99 * Cent),
                        Num(102 * Cent), Num(103 * Cent)>>
    /\ out[5].price_change_1min = Num(Cent)
    /\ Abs(out[5].price_change_pct_1min.v - PctExpected(103, 102)) <= 100
    /\ IsNaN(out[5].price_change_5min)

Windows == {5, 15, 30, 60}
MeanOf(row, W) ==
    CASE W = 5 -> row.rolling_mean_5min
      [] W = 15 -> row.rolling_mean_15min
      [] W = 30 -> row.rolling_mean_30min
      [] W = 60 -> row.rolling_mean_60min
\* the sum of the prices of rows lo..hi
RECURSIVE PriceSum(_, _, _)
PriceSum(d, lo, hi) ==
    IF lo > hi THEN 0
    ELSE IF lo = hi THEN d[lo].price
    ELSE PriceSum(d, lo, (lo + hi) \div 2) + PriceSum(d, ((lo + hi) \div 2) + 1, hi)
\* m is the mean of rows lo..hi, rounded down to 1/SCALE
IsMeanOf(m, d, lo, hi) ==
    /\ IsNum(m)
    /\ m.v * (hi - lo + 1) <= PriceSum(d, lo, hi)
    /\ PriceSum(d, lo, hi) < (m.v + 1) * (hi - lo + 1)

\* C20: rolling_mean_Wmin[t] is the arithmetic mean of the prices of rows
\* max(0, t-W+1)..t; a constant series gives the constant; and
\* rolling_min_30min <= rolling_mean_30min <= rolling_max_30min.
C20_RollingMean ==
    call.name = "create_rolling_features" =>
        \A t \in 1..Len(out) :
            /\ \A W \in Windows :
                  /\ IsMeanOf(MeanOf(out[t], W), df, IF t > W THEN t - W + 1 ELSE 1, t)
                  /\ IsFlat(df) => MeanOf(out[t], W) = Num(df[t].price)
            /\ out[t].rolling_min_30min.v <= out[t].rolling_mean_30min.v
            /\ out[t].rolling_mean_30min.v <= out[t].rolling_max_30min.v

C20_Witness ==
    /\ call.name = "create_rolling_features"
    /\ Len(out) > 60
    /\ out[Len(out)].rolling_mean_60min # out[Len(out)].rolling_mean_30min
    /\ out[Len(out)].rolling_min_30min.v < out[Len(out)].rolling_mean_30min.v
    /\ out[Len(out)].rolling_mean_30min.v < out[Len(out)].rolling_max_30min.v
    /\ out[5].rolling_mean_5min # out[6].rolling_mean_5min

(***************************************************************************)
(* Stochastic oscillator on a zero range.                                  *)
(***************************************************************************)
\* the highest and the lowest price of the trailing 14 rows of row t agree
ZeroRange(d, t) == \A i \in WinLo(t, 14)..t : d[i].price = d[t].price

\* C21: at every row whose trailing 14-row window has equal highest and
\* lowest price (always the first row), stoch_k and stoch_d are defined
\* numbers, not null.
C21_StochasticZeroRange ==
    call.name = "create_technical_indicators" =>
        \A t \in 1..Len(out) :
            ZeroRange(df, t) => IsNum(out[t].stoch_k) /\ IsNum(out[t].stoch_d)

(***************************************************************************)
(* MACD.                                                                   *)
(***************************************************************************)
\* span-weighted average of rows 1..t for t <= 3, written out with
\* alpha = 2/(span+1), that is 1 - alpha = (span-1)/(span+1); the prices are
\* taken relative to the first row so that the products stay small
EmaHead(d, span, t) ==
    LET a == span + 1
        b == span - 1
        x(i) == d[i].price - d[1].price
        num == IF t = 1 THEN 0
               ELSE IF t = 2 THEN a * x(2)
               ELSE a * a * x(3) + a * b * x(2)
        den == IF t = 1 THEN 1
               ELSE IF t = 2 THEN a + b
               ELSE a * a + a * b + b * b
    IN  d[1].price + Sign(num) * (Abs(num) \div den)

\* C22: macd_histogram = macd_line - macd_signal and macd_line =
\* ema_12 - ema_26 at every row, each EMA with smoothing factor 2/(span+1);
\* on a constant series the three columns are 0 at every row.
C22_MacdIdentities ==
    call.name = "create_technical_indicators" =>
        /\ \E ema_12 \in {EwmMean(PriceCol(df), 12)},
              ema_26 \in {EwmMean(PriceCol(df), 26)} :
              \A t \in 1..Len(out) :
                  /\ IsNum(out[t].macd_line) /\ IsNum(out[t].macd_signal)
                  /\ out[t].macd_histogram
                         = FSub(out[t].macd_line, out[t].macd_signal)
                  /\ out[t].macd_line = FSub(ema_12[t], ema_26[t])
        /\ \A t \in 1..Min2(3, Len(out)) :
              Close(out[t].macd_line,
                    Num(EmaHead(df, 12, t) - EmaHead(df, 26, t)))
        /\ IsFlat(df) =>
              \A t \in 1..Len(out) :
                  /\ out[t].macd_line = Num(0)
                  /\ out[t].macd_signal = Num(0)
                  /\ out[t].macd_histogram = Num(0)

\* a rising series of at least 20 rows: the MACD line has left 0, the signal
\* lags behind it and the histogram is their positive difference
C22_Witness ==
    /\ call.name = "create_technical_indicators"
    /\ Len(df) >= 20 /\ IsIncreasing(df)
    /\ out[3].macd_line.v > 0
    /\ out[Len(out)].macd_signal.v > 0
    /\ out[Len(out)].macd_histogram.v > 0
    /\ out[Len(out)].macd_line.v
           = out[Len(out)].macd_signal.v + out[Len(out)].macd_histogram.v

(***************************************************************************)
(* Average true range on a single price series.                            *)
(***************************************************************************)
\* |price[t] - price[t-1]|, and 0 at the first row
TrueRange(d, t) == IF t = 1 THEN 0 ELSE Abs(d[t].price - d[t - 1].price)

RECURSIVE TrueRangeSum(_, _, _)
TrueRangeSum(d, lo, hi) ==
    IF lo > hi THEN 0 ELSE TrueRange(d, hi) + TrueRangeSum(d, lo, hi - 1)

\* C23: with high = low = close = price, atr_14[t] is the mean of the true
\* ranges |price[i] - price[i-1]| (0 at the first row) over the trailing 14
\* rows, so it is defined and non-negative at every row.
C23_AtrSingleSeries ==
    call.name = "create_technical_indicators" =>
        \A t \in 1..Len(out) :
            /\ IsNum(out[t].atr_14)
            /\ out[t].atr_14.v >= 0
            /\ out[t].atr_14.v
                   = TrueRangeSum(df, WinLo(t, 14), t) \div (t - WinLo(t, 14) + 1)

\* a series that rises and then falls, long enough for the window to have
\* left the first row
C23_Witness ==
    /\ call.name = "create_technical_indicators"
    /\ Len(df) >= 16
    /\ ~IsFlat(df) /\ ~IsIncreasing(df) /\ ~IsDecreasing(df)
    /\ out[1].atr_14 = Num(0)
    /\ out[2].atr_14.v > 0
    /\ out[Len(out)].atr_14.v > 0
    /\ out[Len(out)].atr_14 # out[14].atr_14

(***************************************************************************)
(* A failed save.                                                          *)
(***************************************************************************)
\* the records enrich_historical_data hands to save_enriched_data
NewRecords(sc, prices, limit) ==
    The({ [t \in 1..Len(enriched_df) |-> prepare_enriched_record(enriched_df[t])] :
          enriched_df \in {EngineerSortedOn(sc, SortByTimestamp(
                               load_historical_data(prices, limit))).frame} })

\* C25: when the insert of batch k fails inside save_enriched_data the call
\* returns False and the feature table holds exactly the rows of batches
\* 1..k-1 of the new data; the rows it held before the call are gone.
C25_FailedSavePartial ==
    [][(/\ call'.name = "enrich_historical_data"
        /\ load_historical_data(bitcoin_prices, call'.limit) # << >>
        /\ call'.fail >= 1
        /\ call'.fail <= BatchCount(Len(load_historical_data(bitcoin_prices,
                                                              call'.limit)),
                                    call'.batch_size)) =>
          /\ result' = [kind |-> "bool", ok |-> FALSE]
          /\ \E new \in {NewRecords(scaler, bitcoin_prices, call'.limit)} :
                features' = SubSeq(new, 1, (call'.fail - 1) * call'.batch_size)]_vars

\* two stored prices saved in batches of one, the second insert failing: the
\* table is left with the first new row only
C25_Witness ==
    /\ call.name = "enrich_historical_data"
    /\ Len(bitcoin_prices) = 2
    /\ call.limit = 0 /\ call.batch_size = 1 /\ call.fail = 2
    /\ result = [kind |-> "bool", ok |-> FALSE]
    /\ Len(features) = 1
    /\ features[1].timestamp = bitcoin_prices[1].timestamp

(***************************************************************************)
(* Momentum, and the caller's table.                                       *)
(***************************************************************************)
\* C29: at every row momentum_5min equals price_change_5min and
\* momentum_15min equals price_change_15min, both null for the first 5
\* resp. 15 rows, and momentum_30min is the price minus price_lag_30min.
C29_RedundantMomentum ==
    call.name = "engineer_all_features" =>
        \A t \in 1..Len(out) :
            /\ out[t].momentum_5min = out[t].price_change_5min
            /\ out[t].momentum_15min = out[t].price_change_15min
            /\ IsNaN(out[t].momentum_5min) <=> t <= 5
            /\ IsNaN(out[t].momentum_15min) <=> t <= 15
            /\ out[t].momentum_30min
                   = FSub(Num(out[t].price), out[t].price_lag_30min)
            /\ t > 30 => out[t].momentum_30min = Num(out[t].price - out[t - 30].price)

\* more than 30 rows with a price that moved: the three momenta are numbers
\* at the last row and not all zero
C29_Witness ==
    /\ call.name = "engineer_all_features"
    /\ Len(out) > 30
    /\ IsNaN(out[15].momentum_15min) /\ IsNum(out[16].momentum_15min)
    /\ IsNum(out[Len(out)].momentum_30min)
    /\ out[Len(out)].momentum_5min.v # 0
    /\ out[Len(out)].momentum_30min.v # 0

\* the operations of the BitcoinFeatureEngineer that take a DataFrame
StepNames ==
    {"create_temporal_features", "create_lag_features", "create_rolling_features",
     "create_technical_indicators", "create_volatility_features",
     "create_momentum_features", "normalize_features", "engineer_all_features"}

Unverified(p) ==
    /\ IsNone(p.actual_price) /\ IsNone(p.actual_trend)
    /\ IsNone(p.prediction_error) /\ IsNone(p.trend_correct)
Verified(p) ==
    /\ ~IsNone(p.actual_price) /\ ~IsNone(p.actual_trend)
    /\ ~IsNone(p.prediction_error) /\ ~IsNone(p.trend_correct)

\* a price point exists 14 to 16 minutes after prediction i
Verifiable(i) ==
    /\ i <= Len(predictions)
    /\ \E j \in 1..Len(bitcoin_prices) :
          /\ bitcoin_prices[j].timestamp >= predictions[i].timestamp + 14
          /\ bitcoin_prices[j].timestamp <= predictions[i].timestamp + 16

\* C24: every stored prediction for which a price point exists 14 to 16
\* minutes after its timestamp is eventually updated with the four actual
\* values, whatever the schedule of the collection cycles.
C24_EventuallyVerified ==
    \A i \in 1..MaxPredictions :
        [](Verifiable(i) => <>(i <= Len(predictions) /\ Verified(predictions[i])))

\* C26: a prediction has either all four actual values null or all four
\* set; once set they are never changed; actual_trend is UP exactly when
\* actual_price > current_price and trend_correct is 1 exactly when
\* actual_trend equals predicted_trend.
C26_VerificationWriteOnce ==
    /\ [](\A i \in 1..Len(predictions) :
             LET p == predictions[i]
             IN  /\ Unverified(p) \/ Verified(p)
                 /\ Verified(p) =>
                       /\ p.actual_trend.v \in Trends
                       /\ p.actual_trend.v = "UP"
                              <=> p.actual_price.v > p.current_price
                       /\ p.trend_correct.v \in {0, 1}
                       /\ p.trend_correct.v = 1
                              <=> p.actual_trend.v = p.predicted_trend)
    /\ [][\A i \in 1..Len(predictions) :
             Verified(predictions[i]) =>
                 i <= Len(predictions') /\ predictions'[i] = predictions[i]]_vars

\* a verified prediction whose actual price equals the current price, and a
\* later cycle has run
C26_Witness ==
    /\ call.name = "_collect_and_store_predictions"
    /\ Len(predictions) = 1
    /\ Verified(predictions[1])
    /\ predictions[1].actual_price.v = predictions[1].current_price
    /\ predictions[1].actual_trend.v = "DOWN"
    /\ predictions[1].predicted_trend = "UP"
    /\ predictions[1].trend_correct.v = 0
    /\ predictions[1].prediction_error.v = 0
    /\ now = predictions[1].timestamp + 16
    /\ Len(bitcoin_prices) = 2

(***************************************************************************)
(* The collectors.                                                         *)
(***************************************************************************)
\* C27: for both collectors, whenever the collection loop has ended, for
\* whatever reason, running is False, so that a later start_collection
\* starts a new loop.
C27_RunningMatchesLoop ==
    \A c \in Collectors : Active(c) = {} => ~running[c]

\* C28: under any interleaving of start_collection and stop_collection on
\* one collector at most one collection loop is active at a time, and no two
\* prices are saved for the same minute.
C28_SingleLoop ==
    /\ \A c \in Collectors : Cardinality(Active(c)) <= 1
    /\ \A i, j \in 1..Len(bitcoin_prices) :
          i # j => bitcoin_prices[i].timestamp # bitcoin_prices[j].timestamp

=============================================================================
